---- MODULE Spec2Model ----
(***************************************************************************)
(* Model of the document analyzer: document_analyzer.py (command line) and *)
(* gui_analyzer.py (Tk front-end with chaptered analysis).                  *)
(*                                                                         *)
(* A Python str is a sequence of characters; a character is a one-letter   *)
(* TLA+ string (a non-ASCII letter is written by its code point, "U+00E9"). *)
(* The external capabilities (NLTK tokenizer and tagger, the PDF and DOCX  *)
(* parsers, the filesystem, the NLTK downloader) are inputs: their answers  *)
(* are drawn from bounded sets.                                            *)
(***************************************************************************)
EXTENDS Integers, Sequences, FiniteSets, TLC

VARIABLES
    call,            \* pure-function harness: the call being made (a record)
    ret,             \* pure-function harness: <<>> before the call, <<result>> after
    world,           \* pure-function harness: what the external capabilities answer
    app,             \* which program runs: "cli" (document_analyzer) or "gui" (gui_analyzer)
    pc,              \* position of the program (main thread / worker thread)
    nltk_setup,      \* outcome of setup_nltk_resources: "pending", "ok", "failed"
    file_path,       \* main_app's file_path / DocumentAnalyzerGUI.file_path
    document_text,   \* value returned by get_document_text, <<>> wrapped
    chapter_texts,   \* analyze_by_chapter: chapter_texts
    chapter_reports, \* analyze_by_chapter: chapter_reports (ordered dict as a sequence of pairs)
    chapter_i,       \* analyze_by_chapter: i of the for loop over chapter_texts
    after_queue,     \* callbacks posted with master.after(0, ...)
    screen,          \* what the front-end shows
    delivered,       \* what the run handed to its caller, in order
    trace            \* history: calls made to the external capabilities and to the core

vars == <<call, ret, world, app, pc, nltk_setup, file_path, document_text, chapter_texts,
          chapter_reports, chapter_i, after_queue, screen, delivered, trace>>

harnessVars == <<call, ret, world>>
appVars == <<app, pc, nltk_setup, file_path, document_text, chapter_texts,
             chapter_reports, chapter_i, after_queue, screen, delivered, trace>>

----------------------------------------------------------------------------
(* Bounds of the model *)

MaxTokens == 6
MaxChunks == 4
MaxTagged == 3
MaxParts == 2

----------------------------------------------------------------------------
(* Python str and list helpers *)

Max(a, b) == IF a >= b THEN a ELSE b
Min(a, b) == IF a <= b THEN a ELSE b

\* every sequence over V of length 0..n
SeqsUpTo(V, n) == UNION {[1..k -> V] : k \in 0..n}

RECURSIVE Concat(_)
\* the concatenation, in order, of a sequence of sequences (by halves, so
\* that long documents do not nest deeply)
Concat(ss) ==
    IF ss = <<>> THEN <<>>
    ELSE IF Len(ss) = 1 THEN ss[1]
    ELSE LET h == Len(ss) \div 2
         IN  Concat(SubSeq(ss, 1, h)) \o Concat(SubSeq(ss, h + 1, Len(ss)))

RECURSIVE Join(_, _)
\* sep.join(parts)
Join(sep, parts) ==
    IF parts = <<>> THEN <<>>
    ELSE IF Len(parts) = 1 THEN parts[1]
    ELSE LET h == Len(parts) \div 2
         IN  Join(sep, SubSeq(parts, 1, h)) \o sep
                 \o Join(sep, SubSeq(parts, h + 1, Len(parts)))

\* s.startswith(prefix)
StartsWith(s, prefix) ==
    /\ Len(s) >= Len(prefix)
    /\ SubSeq(s, 1, Len(prefix)) = prefix

Whitespace == {" ", "\n"}

----------------------------------------------------------------------------
(* The tokenizer capability.  NLTK's word_tokenize is external; it is      *)
(* modelled by what the program relies on: it yields the maximal runs of   *)
(* non-whitespace characters of the text, in order.  Every sequence of     *)
(* non-empty whitespace-free tokens is the tokenization of some text.      *)

Abs(x) == IF x < 0 THEN -x ELSE x

RECURSIVE TokRange(_, _, _)
\* the tokens of s[lo..hi], a range that no token straddles
TokRange(s, lo, hi) ==
    LET gaps == {i \in lo..hi : s[i] \in Whitespace}
    IN  IF lo > hi THEN <<>>
        ELSE IF gaps = {} THEN <<SubSeq(s, lo, hi)>>
        ELSE LET mid == (lo + hi) \div 2
                 m   == CHOOSE i \in gaps :
                            \A j \in gaps : Abs(i - mid) <= Abs(j - mid)
             IN  TokRange(s, lo, m - 1) \o TokRange(s, m + 1, hi)

word_tokenize(text) == TokRange(text, 1, Len(text))

----------------------------------------------------------------------------
(* split_text_into_chapters, gui_analyzer.py *)

\* target_size = max(1, total_words // max_chunks)
TargetSize(total_words, max_chunks) == Max(1, total_words \div max_chunks)

\* mutant: the chunk is closed only once it has grown past the target
ShouldCloseLate(current_chunk, chapter_chunks, target_size, max_chunks) ==
    /\ Len(current_chunk) > target_size
    /\ Len(chapter_chunks) < max_chunks - 1

\* mutant: the cap on the number of closed chunks is forgotten
ShouldCloseUncapped(current_chunk, chapter_chunks, target_size, max_chunks) ==
    Len(current_chunk) >= target_size

\* the condition that closes the current chunk
ShouldClose(current_chunk, chapter_chunks, target_size, max_chunks) ==
    /\ Len(current_chunk) >= target_size
    /\ Len(chapter_chunks) < max_chunks - 1

\* the body of the for loop: the token joins the current chunk, and the
\* chunk is closed when ShouldClose says so
LoopBody(state, token, target_size, max_chunks) ==
    LET appended == Append(state.current_chunk, token)
    IN  IF ShouldClose(appended, state.chapter_chunks, target_size, max_chunks)
        THEN [current_chunk  |-> <<>>,
              chapter_chunks |-> Append(state.chapter_chunks, Join(<<" ">>, appended))]
        ELSE [current_chunk  |-> appended,
              chapter_chunks |-> state.chapter_chunks]

RECURSIVE SplitLoop(_, _, _, _, _, _)
\* the for loop over tokens[lo..hi], token after token from the given state
\* of the two lists (the range is walked by halves, so that a long document
\* does not nest deeply); yields the two lists after the loop
SplitLoop(tokens, lo, hi, state, target_size, max_chunks) ==
    IF lo > hi THEN state
    ELSE IF lo = hi THEN LoopBody(state, tokens[lo], target_size, max_chunks)
    ELSE LET mid   == (lo + hi) \div 2
             first == SplitLoop(tokens, lo, mid, state, target_size, max_chunks)
         IN  \* the first half is computed before the second half starts
             IF Len(first.chapter_chunks) >= 0
             THEN SplitLoop(tokens, mid + 1, hi, first, target_size, max_chunks)
             ELSE first

\* chapter_chunks = [] and current_chunk = [] before the loop
EmptyLists == [current_chunk |-> <<>>, chapter_chunks |-> <<>>]

\* mutant: the tokens left after the loop are dropped
SplitDroppingRemainder(text, max_chunks) ==
    LET tokens == word_tokenize(text)
    IN  SplitLoop(tokens, 1, Len(tokens), EmptyLists,
                  TargetSize(Len(tokens), max_chunks), max_chunks).chapter_chunks

split_text_into_chapters(text, max_chunks) ==
    LET tokens      == word_tokenize(text)
        total_words == Len(tokens)
        target_size == TargetSize(total_words, max_chunks)
        after       == SplitLoop(tokens, 1, total_words, EmptyLists,
                                 target_size, max_chunks)
    IN  IF after.current_chunk # <<>>
        THEN Append(after.chapter_chunks, Join(<<" ">>, after.current_chunk))
        ELSE after.chapter_chunks

----------------------------------------------------------------------------
(* Inputs of the segmentation checks *)

SplitVocab == { <<"a">>, <<"b", ".">> }

\* a text laid out with the given separator between tokens; the newline
\* layout also ends with a newline, as extracted documents do
Layout(tokens, sep) ==
    IF sep = "\n" THEN Concat([i \in 1..Len(tokens) |-> tokens[i] \o <<"\n">>])
    ELSE Join(<<sep>>, tokens)

\* the 300-token document of the segmentation scenario
Doc300 == Join(<<" ">>, [i \in 1..300 |-> <<"a">>])

SplitTexts ==
    {Layout(ts, sep) : ts \in SeqsUpTo(SplitVocab, MaxTokens), sep \in Whitespace}
        \cup {Doc300, <<" ", "\n">>}

IdleApp ==
    /\ app = "none"
    /\ pc = "idle"
    /\ nltk_setup = "pending"
    /\ file_path = <<>>
    /\ document_text = <<>>
    /\ chapter_texts = <<>>
    /\ chapter_reports = <<>>
    /\ chapter_i = 0
    /\ after_queue = <<>>
    /\ screen = [view |-> "none", analyze_button |-> "none"]
    /\ delivered = <<>>
    /\ trace = {}

InitSplit ==
    /\ call \in [fn : {"split_text_into_chapters"}, text : SplitTexts,
                 max_chunks : 1..MaxChunks]
    /\ ret = <<>>
    /\ world = <<>>
    /\ IdleApp

\* the harness calls split_text_into_chapters(text, max_chunks)
CallSplit ==
    /\ call.fn = "split_text_into_chapters"
    /\ ret = <<>>
    /\ ret' = <<split_text_into_chapters(call.text, call.max_chunks)>>
    /\ UNCHANGED <<call, world, appVars>>

NextSplit == CallSplit

SpecSplit == InitSplit /\ [][NextSplit]_vars

----------------------------------------------------------------------------
(* Segmentation claims, checked under SpecSplit *)

SplitReturned == call.fn = "split_text_into_chapters" /\ ret # <<>>

\* the token list of every returned chapter, in chapter order
ChapterTokens == [i \in 1..Len(ret[1]) |-> word_tokenize(ret[1][i])]

\* the number of tokens of every returned chapter
ChapterSizes == [i \in 1..Len(ret[1]) |-> Len(ChapterTokens[i])]

InputTokens == word_tokenize(call.text)

\* C1: the token lists of the returned chapters, concatenated in order, are
\* exactly the token sequence of the text: every token is in exactly one
\* chapter, at its original position.
C1_Partition ==
    SplitReturned => Concat(ChapterTokens) = InputTokens

\* C1 witness: five tokens cut into three chapters of unequal sizes
C1_Witness ==
    /\ SplitReturned
    /\ Len(InputTokens) = 5
    /\ ChapterSizes = <<1, 1, 3>>

\* C2 as stated: segmentation always returns between 1 and max_chapters
\* chapters, a text without tokens giving one empty chapter.
C2_AtLeastOneChapter ==
    SplitReturned =>
        /\ 1 <= Len(ret[1])
        /\ Len(ret[1]) <= call.max_chunks
        /\ (InputTokens = <<>> => ret[1] = << <<>> >>)

\* C2 amended: segmentation returns at most max_chapters chapters, none of
\* them empty; it returns no chapter at all exactly when the text has no
\* token, and at least one otherwise.
C2_ChapterCount ==
    SplitReturned =>
        /\ Len(ret[1]) <= call.max_chunks
        /\ \A i \in 1..Len(ret[1]) : ret[1][i] # <<>>
        /\ (InputTokens = <<>> <=> ret[1] = <<>>)

\* C2 witness: a whitespace-only text comes back as the empty list
C2_Witness ==
    /\ SplitReturned
    /\ call.text # <<>>
    /\ InputTokens = <<>>
    /\ ret[1] = <<>>

\* C3: every chapter but the last has exactly target_size tokens; a text of
\* at least max_chapters tokens gives max_chapters chapters, the last holding
\* the remainder; the 300-token text with max_chapters = 3 gives sizes
\* [100, 100, 100].
C3_TargetSizes ==
    SplitReturned =>
        LET total  == Len(InputTokens)
            target == Max(1, total \div call.max_chunks)
            n      == Len(ret[1])
        IN  /\ \A i \in 1..(n - 1) : ChapterSizes[i] = target
            /\ total >= call.max_chunks =>
                   /\ n = call.max_chunks
                   /\ ChapterSizes[n] = total - (n - 1) * target
            /\ (total = 300 /\ call.max_chunks = 3) => ChapterSizes = <<100, 100, 100>>

\* C3 witness: the 300-token scenario has been segmented into three chapters
C3_Witness ==
    /\ SplitReturned
    /\ call.text = Doc300
    /\ call.max_chunks = 3
    /\ Len(ret[1]) = 3

----------------------------------------------------------------------------
(* Characters: str.lower() and the regular expression class \w.  The       *)
(* pattern r'\w+' is a str pattern, so \w is Unicode-aware: it matches the *)
(* letters and digits of every script and the underscore.                  *)

UpperSeq == <<"A", "B", "C", "D", "E", "F", "G", "H", "I", "J", "K", "L", "M",
              "N", "O", "P", "Q", "R", "S", "T", "U", "V", "W", "X", "Y", "Z">>
LowerSeq == <<"a", "b", "c", "d", "e", "f", "g", "h", "i", "j", "k", "l", "m",
              "n", "o", "p", "q", "r", "s", "t", "u", "v", "w", "x", "y", "z">>
AsciiLetters == {UpperSeq[i] : i \in 1..Len(UpperSeq)} \cup {LowerSeq[i] : i \in 1..Len(LowerSeq)}
Digits == {"0", "1", "2", "3", "4", "5", "6", "7", "8", "9"}
\* letters outside ASCII: e-acute, small and capital
NonAsciiLetters == {"U+00E9", "U+00C9"}

\* the characters [A-Za-z0-9_]
AsciiWordChars == AsciiLetters \cup Digits \cup {"_"}

\* the characters \w matches in a str pattern
WordChars == AsciiWordChars \cup NonAsciiLetters

CharLower(c) ==
    IF \E i \in 1..Len(UpperSeq) : UpperSeq[i] = c
    THEN LowerSeq[CHOOSE i \in 1..Len(UpperSeq) : UpperSeq[i] = c]
    ELSE IF c = "U+00C9" THEN "U+00E9" ELSE c

\* word.lower()
Lower(word) == [i \in 1..Len(word) |-> CharLower(word[i])]

\* mutant: re.match in place of re.fullmatch, a word-shaped prefix is enough
MatchWordPrefix(word) == Len(word) >= 1 /\ word[1] \in WordChars

\* re.fullmatch(r'\w+', word)
FullMatchWord(word) ==
    /\ Len(word) >= 1
    /\ \A i \in 1..Len(word) : word[i] \in WordChars

----------------------------------------------------------------------------
(* analyze_text, document_analyzer.py and gui_analyzer.py (same code) *)

JJ == <<"J", "J">>

IsAdjective(tagged) == StartsWith(tagged[2], JJ)

RECURSIVE Counter(_, _, _)
\* Counter(items): the counts, kept in order of first occurrence (a dict);
\* counts so far in acc, items from index k on still to count
Counter(items, k, acc) ==
    IF k > Len(items) THEN acc
    ELSE IF \E j \in 1..Len(acc) : acc[j][1] = items[k]
         THEN Counter(items, k + 1,
                      [j \in 1..Len(acc) |->
                          IF acc[j][1] = items[k] THEN <<acc[j][1], acc[j][2] + 1>>
                          ELSE acc[j]])
         ELSE Counter(items, k + 1, Append(acc, <<items[k], 1>>))

\* mutant: an entry goes before the entries of equal count
InsertBeforeEqual(sorted, entry) ==
    LET before == Cardinality({j \in 1..Len(sorted) : sorted[j][2] > entry[2]})
    IN  SubSeq(sorted, 1, before) \o <<entry>> \o SubSeq(sorted, before + 1, Len(sorted))

\* one step of the stable descending sort: the entry goes after every entry
\* whose count is at least its own
InsertByCount(sorted, entry) ==
    LET before == Cardinality({j \in 1..Len(sorted) : sorted[j][2] >= entry[2]})
    IN  SubSeq(sorted, 1, before) \o <<entry>> \o SubSeq(sorted, before + 1, Len(sorted))

RECURSIVE SortedByCount(_, _, _)
\* sorted(counts.items(), key=count, reverse=True): stable
SortedByCount(entries, k, sorted) ==
    IF k > Len(entries) THEN sorted
    ELSE SortedByCount(entries, k + 1, InsertByCount(sorted, entries[k]))

\* mutant: the scoreboard is not cut
MostCommonUncut(counts, n) == SortedByCount(counts, 1, <<>>)

\* Counter.most_common(n)
MostCommon(counts, n) ==
    LET ranking == SortedByCount(counts, 1, <<>>)
    IN  SubSeq(ranking, 1, Min(n, Len(ranking)))

\* rows of the adjective scoreboard
TopN == 10

\* analyze_text(text), with tag_answer the tags pos_tag gives the tokens
analyze_text(text, tag_answer) ==
    LET tokens           == word_tokenize(text)
        matching         == SelectSeq(tokens, FullMatchWord)
        words            == [i \in 1..Len(matching) |-> Lower(matching[i])]
        total_word_count == Len(words)
        tagged_words     == [i \in 1..Len(tokens) |-> <<tokens[i], tag_answer[i]>>]
        jj               == SelectSeq(tagged_words, IsAdjective)
        adjectives       == [i \in 1..Len(jj) |-> Lower(jj[i][1])]
        adjective_counts == Counter(adjectives, 1, <<>>)
        top_adjectives   == MostCommon(adjective_counts, TopN)
    IN  <<total_word_count, top_adjectives>>

----------------------------------------------------------------------------
(* Inputs of the analysis checks *)

(* Words, spelled as character sequences *)
W_b_2 == <<"b", "_", "2">>
W_B_2 == <<"B", "_", "2">>
W_dot == <<".">>
W_mixed == <<"a", "-", "1">>
W_cafe == <<"c", "a", "f", "U+00E9">>
W_The == <<"T", "h", "e">>
W_quick == <<"q", "u", "i", "c", "k">>
W_brown == <<"b", "r", "o", "w", "n">>
W_fox == <<"f", "o", "x">>
W_lazy == <<"l", "a", "z", "y">>
W_dog == <<"d", "o", "g">>

DT == <<"D", "T">>
NN == <<"N", "N">>

\* part-of-speech tags the tagger may give a token of a short document:
\* adjective, comparative adjective, noun
Tags == {JJ, <<"J", "J", "R">>, NN}

\* tokens of the short documents: word with digit and underscore, its case
\* variant, punctuation, mixed, word with a non-ASCII letter
AnalyzeVocab == { W_b_2, W_B_2, W_dot, W_mixed, W_cafe }

\* "The quick brown fox. The lazy dog." as tokenized
FoxTokens == << W_The, W_quick, W_brown, W_fox, W_dot, W_The, W_lazy, W_dog, W_dot >>

\* twelve distinct words, then two of them again
ManyTokens == [i \in 1..12 |-> <<LowerSeq[i]>>] \o << <<"l">>, <<"e">> >>

\* a tagger that goes by the word alone
LexiconTag(token) ==
    IF Lower(token) \in {W_quick, W_brown, W_lazy} THEN JJ
    ELSE IF Lower(token) = Lower(W_The) THEN DT
    ELSE IF token = W_dot THEN W_dot
    ELSE NN

LexiconTagging(tokens) == [i \in 1..Len(tokens) |-> LexiconTag(tokens[i])]

\* what pos_tag may answer for a token sequence: any tagging of a short
\* one; for a long one the lexicon's tagging or every token an adjective
PosTagAnswers(tokens) ==
    IF Len(tokens) <= MaxTagged THEN [1..Len(tokens) -> Tags]
    ELSE {LexiconTagging(tokens), [i \in 1..Len(tokens) |-> JJ]}

AnalyzeTexts ==
    {Join(<<" ">>, ts) : ts \in SeqsUpTo(AnalyzeVocab, MaxTagged)}
        \cup {Join(<<" ">>, FoxTokens), Layout(ManyTokens, "\n")}

InitAnalyze ==
    /\ call \in [fn : {"analyze_text"}, text : AnalyzeTexts]
    /\ ret = <<>>
    /\ world = <<>>
    /\ IdleApp

\* the harness calls analyze_text(text); the tagger answers with some tagging
CallAnalyze ==
    /\ call.fn = "analyze_text"
    /\ ret = <<>>
    /\ \E tag_answer \in PosTagAnswers(word_tokenize(call.text)) :
          /\ world' = <<tag_answer>>
          /\ ret' = <<analyze_text(call.text, tag_answer)>>
    /\ UNCHANGED <<call, appVars>>

NextAnalyze == CallAnalyze

SpecAnalyze == InitAnalyze /\ [][NextAnalyze]_vars

----------------------------------------------------------------------------
(* Analysis claims, checked under SpecAnalyze *)

AnalyzeReturned == call.fn = "analyze_text" /\ ret # <<>>

\* the tokens analysed and the tags the tagger gave them
ATokens == word_tokenize(call.text)
ATags == world[1]

\* the returned pair
WordCount == ret[1][1]
Table == ret[1][2]

\* a token all of whose characters, once lowercased, are in [A-Za-z0-9_]
AsciiWordShaped(token) ==
    /\ token # <<>>
    /\ {CharLower(token[j]) : j \in 1..Len(token)} \subseteq AsciiWordChars

\* a token all of whose characters are letters or digits of any script, or
\* the underscore
WordShaped(token) ==
    /\ token # <<>>
    /\ {token[j] : j \in 1..Len(token)} \subseteq WordChars

\* C4 as stated: the word count is the number of tokens whose lowercased
\* form fully matches ^[A-Za-z0-9_]+$.
C4_AsciiWordCount ==
    AnalyzeReturned =>
        WordCount = Cardinality({i \in 1..Len(ATokens) : AsciiWordShaped(ATokens[i])})

\* C4 amended: the word count is the number of tokens that consist entirely
\* of word characters in the Unicode sense (letters and digits of any
\* script, and underscore); punctuation-only and mixed tokens are not
\* counted.
C4_WordCount ==
    AnalyzeReturned =>
        WordCount = Cardinality({i \in 1..Len(ATokens) : WordShaped(ATokens[i])})

\* C4 witness: a word with a non-ASCII letter, a mixed token and an ASCII
\* word were analysed, and two of the three were counted
C4_Witness ==
    /\ AnalyzeReturned
    /\ ATokens = <<W_cafe, W_mixed, W_b_2>>
    /\ WordCount = 2

\* positions the tagger marked as adjectives, and what is known of each
\* lowercased adjective from the tagged input alone
AdjPositions == {i \in 1..Len(ATokens) : StartsWith(ATags[i], JJ)}
AdjForms == {Lower(ATokens[i]) : i \in AdjPositions}
Occurrences(w) == {i \in AdjPositions : Lower(ATokens[i]) = w}
FirstSeen(w) == CHOOSE i \in Occurrences(w) : \A j \in Occurrences(w) : i <= j
RanksBefore(w, v) ==
    \/ Cardinality(Occurrences(w)) > Cardinality(Occurrences(v))
    \/ /\ Cardinality(Occurrences(w)) = Cardinality(Occurrences(v))
       /\ FirstSeen(w) < FirstSeen(v)

\* C5: the adjective table lists lowercased adjectives with their counts, in
\* descending order of count and, for equal counts, in order of first
\* occurrence; it has at most 10 rows and is the first 10 entries of that
\* ranking.
C5_AdjectiveTable ==
    AnalyzeReturned =>
        /\ Len(Table) = Min(10, Cardinality(AdjForms))
        /\ \A r \in 1..Len(Table) :
              /\ Table[r][1] \in AdjForms
              /\ Table[r][2] = Cardinality(Occurrences(Table[r][1]))
        /\ \A r \in 1..(Len(Table) - 1) : RanksBefore(Table[r][1], Table[r + 1][1])
        /\ \A w \in AdjForms \ {Table[r][1] : r \in 1..Len(Table)} :
              \A r \in 1..Len(Table) : RanksBefore(Table[r][1], w)

\* C5 witness: twelve distinct adjectives, two of them seen twice, gave a
\* table of ten rows headed by the two, the earlier-seen first
C5_Witness ==
    /\ AnalyzeReturned
    /\ Cardinality(AdjForms) = 12
    /\ Len(Table) = 10
    /\ Table[1] = << <<"e">>, 2 >>
    /\ Table[2] = << <<"l">>, 2 >>
    /\ Table[10] = << <<"i">>, 1 >>

\* the scenario: the fox text, tagged with quick, brown and lazy (and
\* nothing else) as adjectives
FoxScenario ==
    /\ AnalyzeReturned
    /\ ATokens = FoxTokens
    /\ AdjPositions = {2, 3, 7}

FoxTable == << <<W_quick, 1>>, <<W_brown, 1>>, <<W_lazy, 1>> >>

\* C10 as stated: the fox text has word count 8 and the adjective table
\* [quick: 1, brown: 1, lazy: 1].
C10_FoxCountEight ==
    FoxScenario => (WordCount = 8 /\ Table = FoxTable)

\* C10 amended: the fox text has word count 7 (the two full stops are not
\* words) and the adjective table [quick: 1, brown: 1, lazy: 1] in that
\* first-seen order.
C10_FoxScenario ==
    FoxScenario => (WordCount = 7 /\ Table = FoxTable)

\* C10 witness: the fox scenario has been analysed
C10_Witness == FoxScenario /\ WordCount = 7

----------------------------------------------------------------------------
(* get_document_text, document_analyzer.py and gui_analyzer.py (same code) *)

\* f"Error: File not found at path: {file_path}"
NotFoundPrefix ==
    <<"E", "r", "r", "o", "r", ":", " ", "F", "i", "l", "e", " ", "n", "o",
      "t", " ", "f", "o", "u", "n", "d", " ", "a", "t", " ", "p", "a", "t",
      "h", ":", " ">>
\* f"Error reading PDF: {e}"
ReadingPdfPrefix ==
    <<"E", "r", "r", "o", "r", " ", "r", "e", "a", "d", "i", "n", "g", " ",
      "P", "D", "F", ":", " ">>
\* f"Error reading DOCX: {e}"
ReadingDocxPrefix ==
    <<"E", "r", "r", "o", "r", " ", "r", "e", "a", "d", "i", "n", "g", " ",
      "D", "O", "C", "X", ":", " ">>
\* f"Unsupported file type: {file_extension}. Please use .pdf or .docx"
UnsupportedPrefix ==
    <<"U", "n", "s", "u", "p", "p", "o", "r", "t", "e", "d", " ", "f", "i",
      "l", "e", " ", "t", "y", "p", "e", ":", " ">>
UnsupportedSuffix ==
    <<".", " ", "P", "l", "e", "a", "s", "e", " ", "u", "s", "e", " ", ".",
      "p", "d", "f", " ", "o", "r", " ", ".", "d", "o", "c", "x">>
DotPdf ==
    <<".", "p", "d", "f">>
DotDocx ==
    <<".", "d", "o", "c", "x">>
\* the prefixes the callers test with startswith
ErrorWord ==
    <<"E", "r", "r", "o", "r">>
UnsupportedWord ==
    <<"U", "n", "s", "u", "p", "p", "o", "r", "t", "e", "d">>

\* p.rfind(c), counting from 1; 0 when c does not occur
LastIndexOf(p, c) ==
    LET at == {i \in 1..Len(p) : p[i] = c}
    IN  IF at = {} THEN 0 ELSE CHOOSE i \in at : \A j \in at : j <= i

\* os.path.splitext(p)[1] on a POSIX path: the extension starts at the last
\* dot of the last component, unless only dots precede it there
SplitExt(p) ==
    LET sepIndex == LastIndexOf(p, "/")
        dotIndex == LastIndexOf(p, ".")
    IN  IF /\ dotIndex > sepIndex
           /\ \E k \in (sepIndex + 1)..(dotIndex - 1) : p[k] # "."
        THEN SubSeq(p, dotIndex, Len(p))
        ELSE <<>>

\* mutant: an extension that merely begins with .pdf is taken for a PDF
IsPdfByPrefix(file_extension) == StartsWith(Lower(file_extension), DotPdf)

\* file_extension.lower() == '.pdf'
IsPdf(file_extension) == Lower(file_extension) = DotPdf

\* file_extension.lower() == '.docx'
IsDocx(file_extension) == Lower(file_extension) = DotDocx

\* the PDF loop: every page with text adds its text and a newline
PdfText(pages) ==
    Concat([i \in 1..Len(pages) |->
               IF pages[i] # <<>> THEN pages[i] \o <<"\n">> ELSE <<>>])

\* the DOCX loop: every paragraph adds its text and a newline
DocxText(paragraphs) ==
    Concat([i \in 1..Len(paragraphs) |-> paragraphs[i] \o <<"\n">>])

\* get_document_text(file_path) on a file the filesystem describes as
\*   file.exists   os.path.exists(file_path)
\*   file.parses   whether PdfReader / Document and the reads succeed
\*   file.error    str(e) of the exception otherwise
\*   file.parts    the page texts / paragraph texts
\* value is what is returned, parsers the document parsers invoked
get_document_text(path, file) ==
    LET file_extension == SplitExt(path)
    IN  IF ~file.exists
        THEN [value |-> NotFoundPrefix \o path, parsers |-> <<>>]
        ELSE IF IsPdf(file_extension)
        THEN [value   |-> IF file.parses THEN PdfText(file.parts)
                          ELSE ReadingPdfPrefix \o file.error,
              parsers |-> <<"PdfReader">>]
        ELSE IF IsDocx(file_extension)
        THEN [value   |-> IF file.parses THEN DocxText(file.parts)
                          ELSE ReadingDocxPrefix \o file.error,
              parsers |-> <<"Document">>]
        ELSE [value   |-> UnsupportedPrefix \o file_extension \o UnsupportedSuffix,
              parsers |-> <<>>]

----------------------------------------------------------------------------
(* Inputs of the extraction checks *)


Dirs == { <<>>, <<"d", ".", "x", "/">> }
Stems == { <<>>, <<"a">>, <<".">>, <<"a", ".", "b">>, <<"r", "e", "p", "o", "r", "t">> }
Exts == { <<>>, DotPdf, <<".", "P", "D", "F">>, DotDocx, <<".", "D", "o", "c", "X">>,
          <<".", "t", "x", "t">>, <<".", "T", "X", "T">>, <<".", "p", "d", "f", "x">>,
          <<".", "d", "o", "c">> }
Paths == {d \o st \o e : d \in Dirs, st \in Stems, e \in Exts}

\* texts of a page or paragraph: none, a word, and a word the callers look for
PartTexts == { <<>>, <<"a">>, ErrorWord }

\* str(e) of a parser's exception
ParserErrors == { <<"b", "a", "d">> }

Files ==
    [exists : BOOLEAN, parses : {TRUE}, error : {<<>>}, parts : SeqsUpTo(PartTexts, MaxParts)]
        \cup [exists : BOOLEAN, parses : {FALSE}, error : ParserErrors, parts : {<<>>}]

InitExtract ==
    /\ call \in [fn : {"get_document_text"}, file_path : Paths]
    /\ ret = <<>>
    /\ world \in Files
    /\ IdleApp

\* the harness calls get_document_text(file_path)
CallExtract ==
    /\ call.fn = "get_document_text"
    /\ ret = <<>>
    /\ ret' = <<get_document_text(call.file_path, world)>>
    /\ UNCHANGED <<call, world, appVars>>

NextExtract == CallExtract

SpecExtract == InitExtract /\ [][NextExtract]_vars

----------------------------------------------------------------------------
(* Extraction claim, checked under SpecExtract *)

ExtractReturned == call.fn = "get_document_text" /\ ret # <<>>

\* the extension of a path, read off the path itself: the suffix from a dot
\* on that holds no further dot or slash, where the last component has a
\* character other than a dot before that dot
ExtensionStartsAt(p, k) ==
    /\ p[k] = "."
    /\ \A j \in (k + 1)..Len(p) : p[j] \notin {".", "/"}
    /\ \E j \in 1..(k - 1) : p[j] \notin {".", "/"} /\ \A i \in j..k : p[i] # "/"

ExtensionOf(p) ==
    IF \E k \in 1..Len(p) : ExtensionStartsAt(p, k)
    THEN SubSeq(p, CHOOSE k \in 1..Len(p) : ExtensionStartsAt(p, k), Len(p))
    ELSE <<>>

OtherExtension(p) == Lower(ExtensionOf(p)) \notin {DotPdf, DotDocx}

UnsupportedOutcome(p) ==
    /\ ret[1].value = UnsupportedPrefix \o ExtensionOf(p) \o UnsupportedSuffix
    /\ ret[1].parsers = <<>>

\* C6 as stated: for every path whose extension is, case-insensitively,
\* neither .pdf nor .docx, get_document_text fails with the unsupported
\* format outcome naming that extension, and no parser is invoked.
C6_UnsupportedAnyPath ==
    (ExtractReturned /\ OtherExtension(call.file_path))
        => UnsupportedOutcome(call.file_path)

\* C6 amended: for every path of an existing file whose extension is,
\* case-insensitively, neither .pdf nor .docx, get_document_text fails with
\* the unsupported format outcome naming that extension as written, and no
\* parser is invoked.
C6_UnsupportedExisting ==
    (ExtractReturned /\ world.exists /\ OtherExtension(call.file_path))
        => UnsupportedOutcome(call.file_path)

\* C6 witness: report.TXT exists and was refused, its extension named as written
C6_Witness ==
    /\ ExtractReturned
    /\ world.exists
    /\ call.file_path = <<"r", "e", "p", "o", "r", "t", ".", "T", "X", "T">>
    /\ ret[1].value = UnsupportedPrefix \o <<".", "T", "X", "T">> \o UnsupportedSuffix

----------------------------------------------------------------------------
(* generate_markdown_report and the report mapping of analyze_by_chapter *)

\* os.path.basename(file_path)
Basename(path) == SubSeq(path, LastIndexOf(path, "/") + 1, Len(path))

\* generate_markdown_report(word_count, top_adjectives, file_path): the
\* report, by its parts: heading, file named, word count, scoreboard rows
\* (no row stands for the "No adjectives were found" sentence)
generate_markdown_report(word_count, top_adjectives, path) ==
    [heading    |-> <<"Document Analysis Report">>,
     file       |-> Basename(path),
     word_count |-> word_count,
     rows       |-> [r \in 1..Len(top_adjectives) |->
                        <<r, top_adjectives[r][1], top_adjectives[r][2]>>]]

\* mutant: the chapters are numbered from 0
ChapterNameFromZero(i) == <<"Chapter", i - 1>>

\* chapter_name = f"Chapter {i}"
ChapterName(i) == <<"Chapter", i>>

FullDocumentSummary == <<"Full Document Summary">>

\* report_content.replace(heading, f"... Analysis Report: {chapter_name}")
ChapterReport(report_content, chapter_name) ==
    [report_content EXCEPT !.heading = <<"Analysis Report", chapter_name>>]

\* d[key] = value on a dict, kept as the sequence of its items in insertion order
DictSet(d, key, value) ==
    IF \E j \in 1..Len(d) : d[j][1] = key
    THEN [j \in 1..Len(d) |-> IF d[j][1] = key THEN <<key, value>> ELSE d[j]]
    ELSE Append(d, <<key, value>>)

\* the default max_chunks=3 of split_text_into_chapters
DefaultMaxChunks == 3

----------------------------------------------------------------------------
(* setup_nltk_resources *)

resources_to_download ==
    <<"punkt", "averaged_perceptron_tagger", "averaged_perceptron_tagger_eng">>

\* what happens for one resource: nltk.data.find finds it, or it raises
\* LookupError and nltk.download returns, or nltk.download raises
ResourceOutcomes == {"found", "download_returns", "download_raises"}

\* setup_nltk_resources raises iff a download raises
SetupRaises(outcomes) ==
    \E r \in 1..Len(resources_to_download) : outcomes[r] = "download_raises"

----------------------------------------------------------------------------
(* The programs: main_app of document_analyzer.py ("cli") and the module  *)
(* and DocumentAnalyzerGUI of gui_analyzer.py ("gui")                      *)

\* s.strip(chars)
Strip(s, chars) ==
    LET keep == {i \in 1..Len(s) : s[i] \notin chars}
    IN  IF keep = {} THEN <<>>
        ELSE SubSeq(s, CHOOSE i \in keep : \A j \in keep : i <= j,
                       CHOOSE i \in keep : \A j \in keep : j <= i)

\* the callers' test of what get_document_text returned
LooksFailed(text) == StartsWith(text, ErrorWord) \/ StartsWith(text, UnsupportedWord)

UnexpectedPrefix ==
    <<"U", "n", "e", "x", "p", "e", "c", "t", "e", "d", " ", "a", "n", "a",
      "l", "y", "s", "i", "s", " ", "e", "r", "r", "o", "r", ":", " ">>

\* str(e) of what the tokenizer or the tagger raises
CapabilityErrors == { <<"p", "u", "n", "k", "t">>, <<"t", "a", "g", "g", "e", "r">> }

\* paths the user may give
AppPaths == { <<"a", ".", "p", "d", "f">>, <<"d", "/", "b", ".", "D", "O", "C", "X">>,
              <<"c", ".", "t", "x", "t">> }

\* lines typed at the prompt: nothing, blanks, a path, a quoted path
CliInputs == { <<>>, <<" ">> } \cup AppPaths
                 \cup { <<" ", "'">> \o q \o <<"'">> : q \in {<<"a", ".", "p", "d", "f">>} }

\* page and paragraph texts of the documents
AppPartTexts == { <<>>, W_B_2, ErrorWord, Join(<<" ">>, <<W_b_2, W_dot, W_cafe, W_B_2>>) }

\* what the filesystem and the parsers may hold for a path; the empty
\* path never exists
AppFiles(path) ==
    {f \in [exists : BOOLEAN, parses : {TRUE}, error : {<<>>},
            parts : SeqsUpTo(AppPartTexts, MaxParts)]
           \cup [exists : BOOLEAN, parses : {FALSE}, error : ParserErrors, parts : {<<>>}] :
        f.exists => path # <<>>}

NoFile == [exists |-> FALSE, parses |-> FALSE, error |-> <<>>, parts |-> <<>>]

\* what one call of analyze_text may do: the tokenizer raises, the tagger
\* raises, or the tagger answers and the pair is returned
AnalysisOutcomes(text) ==
    [raised : {TRUE}, error : CapabilityErrors]
        \cup [raised : {FALSE}, tag_answer : PosTagAnswers(word_tokenize(text))]

Init ==
    /\ call = [fn |-> "none"]
    /\ ret = <<>>
    /\ world = [file |-> NoFile, tag_answers |-> <<>>]
    /\ app \in {"cli", "gui"}
    /\ pc = "start"
    /\ nltk_setup = "pending"
    /\ file_path = <<>>
    /\ document_text = <<>>
    /\ chapter_texts = <<>>
    /\ chapter_reports = <<>>
    /\ chapter_i = 0
    /\ after_queue = <<>>
    /\ screen = [view |-> "none", analyze_button |-> "none"]
    /\ delivered = <<>>
    /\ trace = {}

\* mutant: the except clause prints and does not return
AfterCliSetupNoReturn(raised) == "prompt"

\* main_app, lines 134-138: try / except Exception / return
AfterCliSetup(raised) == IF raised THEN "halted" ELSE "prompt"

\* gui_analyzer.py, lines 39-45: try / except Exception / exit()
AfterGuiSetup(raised) == IF raised THEN "exited" ELSE "idle"

\* main_app, lines 133-138: the setup, and the halt when it raises
CliSetup ==
    /\ app = "cli"
    /\ pc = "start"
    /\ \E outcomes \in [1..Len(resources_to_download) -> ResourceOutcomes] :
          /\ nltk_setup' = IF SetupRaises(outcomes) THEN "failed" ELSE "ok"
          /\ pc' = AfterCliSetup(SetupRaises(outcomes))
    /\ trace' = trace \cup {"setup_nltk_resources"}
    /\ UNCHANGED <<harnessVars, app, file_path, document_text, chapter_texts,
                   chapter_reports, chapter_i, after_queue, screen, delivered>>

\* main_app, lines 145-162: one turn of the prompt loop
CliPrompt ==
    /\ app = "cli"
    /\ pc = "prompt"
    /\ \E typed \in CliInputs :
          IF typed = <<>>
          THEN /\ trace' = trace \cup {"input"}
               /\ UNCHANGED <<world, pc, file_path, document_text>>
          ELSE LET stripped == Strip(Strip(typed, Whitespace), {"'", "\""})
               IN  \E file \in AppFiles(stripped) :
                     LET got == get_document_text(stripped, file)
                     IN  /\ file_path' = stripped
                         /\ document_text' = <<got.value>>
                         /\ world' = [world EXCEPT !.file = file]
                         /\ trace' = trace \cup {"input", "get_document_text"}
                         /\ pc' = IF LooksFailed(got.value) THEN "prompt" ELSE "analyze"
    /\ UNCHANGED <<call, ret, app, nltk_setup, chapter_texts, chapter_reports,
                   chapter_i, after_queue, screen, delivered>>

\* main_app, lines 164-174: the analysis and the printed report; nothing
\* catches what analyze_text raises
CliAnalyze ==
    /\ app = "cli"
    /\ pc = "analyze"
    /\ \E outcome \in AnalysisOutcomes(document_text[1]) :
          IF outcome.raised
          THEN /\ delivered' = Append(delivered, [kind |-> "uncaught", error |-> outcome.error])
               /\ pc' = "crashed"
               /\ UNCHANGED world
          ELSE LET result == analyze_text(document_text[1], outcome.tag_answer)
               IN  /\ delivered' = Append(delivered,
                          [kind |-> "report",
                           report |-> generate_markdown_report(result[1], result[2], file_path)])
                   /\ world' = [world EXCEPT !.tag_answers = <<outcome.tag_answer>>]
                   /\ pc' = "done"
    /\ trace' = trace \cup {"analyze_text"}
    /\ UNCHANGED <<call, ret, app, nltk_setup, file_path, document_text, chapter_texts,
                   chapter_reports, chapter_i, after_queue, screen>>

\* gui_analyzer.py, lines 38-45 and 345-348: the setup at import, exit()
\* when it raises, else the window with its first screen
GuiSetup ==
    /\ app = "gui"
    /\ pc = "start"
    /\ \E outcomes \in [1..Len(resources_to_download) -> ResourceOutcomes] :
          /\ nltk_setup' = IF SetupRaises(outcomes) THEN "failed" ELSE "ok"
          /\ pc' = AfterGuiSetup(SetupRaises(outcomes))
          /\ screen' = IF pc' = "idle"
                       THEN [view |-> "initial", analyze_button |-> "disabled"]
                       ELSE screen
    /\ trace' = trace \cup {"setup_nltk_resources"}
    /\ UNCHANGED <<harnessVars, app, file_path, document_text, chapter_texts,
                   chapter_reports, chapter_i, after_queue, delivered>>

\* DocumentAnalyzerGUI.browse_file: the dialog gives a path, or nothing
browse_file ==
    /\ app = "gui"
    /\ screen.view = "initial"
    /\ \E chosen \in AppPaths \cup {<<>>} :
          /\ file_path' = chosen
          /\ screen' = [screen EXCEPT !.analyze_button =
                           IF chosen # <<>> THEN "normal" ELSE "disabled"]
    /\ trace' = trace \cup {"askopenfilename"}
    /\ UNCHANGED <<harnessVars, app, pc, nltk_setup, document_text, chapter_texts,
                   chapter_reports, chapter_i, after_queue, delivered>>

\* DocumentAnalyzerGUI.start_analysis, by the Analyze button: the progress
\* screen, and the worker thread started on run_analysis
start_analysis ==
    /\ app = "gui"
    /\ screen.view = "initial"
    /\ screen.analyze_button = "normal"
    /\ IF file_path = <<>>
       THEN UNCHANGED <<pc, screen, delivered>>
       ELSE /\ screen' = [view |-> "analyzing", analyze_button |-> "none"]
            /\ pc' = "run_analysis"
            /\ delivered' = <<>>
    /\ UNCHANGED <<harnessVars, app, nltk_setup, file_path, document_text, chapter_texts,
                   chapter_reports, chapter_i, after_queue, trace>>

\* what the except clause of run_analysis posts for an exception e
PostUnexpected(error) ==
    /\ after_queue' = Append(after_queue,
           [callback |-> "show_error_result", arg |-> UnexpectedPrefix \o error])
    /\ pc' = "posted"

\* run_analysis, lines 275-280: the extraction and the test of its result
run_analysis ==
    /\ app = "gui"
    /\ pc = "run_analysis"
    /\ \E file \in AppFiles(file_path) :
          LET got == get_document_text(file_path, file)
          IN  /\ document_text' = <<got.value>>
              /\ world' = [world EXCEPT !.file = file]
              /\ IF LooksFailed(got.value)
                 THEN /\ after_queue' = Append(after_queue,
                             [callback |-> "show_error_result", arg |-> got.value])
                      /\ pc' = "posted"
                 ELSE /\ pc' = "analyze_by_chapter"
                      /\ UNCHANGED after_queue
    /\ trace' = trace \cup {"get_document_text"}
    /\ UNCHANGED <<call, ret, app, nltk_setup, file_path, chapter_texts, chapter_reports,
                   chapter_i, screen, delivered>>

\* analyze_by_chapter, lines 110-111: the segmentation (the tokenizer may
\* raise) and the empty mapping
analyze_by_chapter_split ==
    /\ app = "gui"
    /\ pc = "analyze_by_chapter"
    /\ \/ /\ chapter_texts' = split_text_into_chapters(document_text[1], DefaultMaxChunks)
          /\ chapter_reports' = <<>>
          /\ pc' = "full_document"
          /\ UNCHANGED after_queue
       \/ \E error \in CapabilityErrors :
             /\ PostUnexpected(error)
             /\ UNCHANGED <<chapter_texts, chapter_reports>>
    /\ trace' = trace \cup {"split_text_into_chapters"}
    /\ UNCHANGED <<harnessVars, app, nltk_setup, file_path, document_text, chapter_i,
                   screen, delivered>>

\* analyze_by_chapter, lines 114-117: the report on the whole text
analyze_by_chapter_full ==
    /\ app = "gui"
    /\ pc = "full_document"
    /\ \E outcome \in AnalysisOutcomes(document_text[1]) :
          IF outcome.raised
          THEN /\ PostUnexpected(outcome.error)
               /\ UNCHANGED <<world, chapter_reports, chapter_i>>
          ELSE LET result == analyze_text(document_text[1], outcome.tag_answer)
               IN  /\ chapter_reports' = DictSet(chapter_reports, FullDocumentSummary,
                          generate_markdown_report(result[1], result[2], file_path))
                   /\ world' = [world EXCEPT !.tag_answers = Append(@, outcome.tag_answer)]
                   /\ chapter_i' = 1
                   /\ pc' = "chapters"
                   /\ UNCHANGED after_queue
    /\ trace' = trace \cup {"analyze_text"}
    /\ UNCHANGED <<call, ret, app, nltk_setup, file_path, document_text, chapter_texts,
                   screen, delivered>>

\* analyze_by_chapter, lines 120-135: one turn of the loop over the chapters
analyze_by_chapter_chapter ==
    /\ app = "gui"
    /\ pc = "chapters"
    /\ chapter_i <= Len(chapter_texts)
    /\ LET chapter_text == chapter_texts[chapter_i]
           chapter_name == ChapterName(chapter_i)
       IN  \E outcome \in AnalysisOutcomes(chapter_text) :
             IF outcome.raised
             THEN /\ PostUnexpected(outcome.error)
                  /\ UNCHANGED <<world, chapter_reports, chapter_i>>
             ELSE LET result == analyze_text(chapter_text, outcome.tag_answer)
                      report_content ==
                          generate_markdown_report(result[1], result[2], file_path)
                  IN  /\ chapter_reports' = DictSet(chapter_reports, chapter_name,
                             ChapterReport(report_content, chapter_name))
                      /\ world' = [world EXCEPT !.tag_answers = Append(@, outcome.tag_answer)]
                      /\ chapter_i' = chapter_i + 1
                      /\ UNCHANGED <<pc, after_queue>>
    /\ trace' = trace \cup {"analyze_text"}
    /\ UNCHANGED <<call, ret, app, nltk_setup, file_path, document_text, chapter_texts,
                   screen, delivered>>

\* analyze_by_chapter, line 137, and run_analysis, line 289: the mapping is
\* returned and posted for the results screen
analyze_by_chapter_return ==
    /\ app = "gui"
    /\ pc = "chapters"
    /\ chapter_i > Len(chapter_texts)
    /\ after_queue' = Append(after_queue,
           [callback |-> "final_result_screen", arg |-> chapter_reports])
    /\ pc' = "posted"
    /\ UNCHANGED <<harnessVars, app, nltk_setup, file_path, document_text, chapter_texts,
                   chapter_reports, chapter_i, screen, delivered, trace>>

\* the worker thread is over: its locals are gone
ThreadOver ==
    /\ world' = [file |-> NoFile, tag_answers |-> <<>>]
    /\ document_text' = <<>>
    /\ chapter_texts' = <<>>
    /\ chapter_reports' = <<>>
    /\ chapter_i' = 0
    /\ pc' = "idle"

\* DocumentAnalyzerGUI.show_error_result, run by the Tk main loop: the
\* message box, then the first screen again
show_error_result ==
    /\ app = "gui"
    /\ after_queue # <<>>
    /\ Head(after_queue).callback = "show_error_result"
    /\ delivered' = Append(delivered, [kind |-> "error", message |-> Head(after_queue).arg])
    /\ after_queue' = Tail(after_queue)
    /\ screen' = [view |-> "initial", analyze_button |-> "disabled"]
    /\ ThreadOver
    /\ UNCHANGED <<call, ret, app, nltk_setup, file_path, trace>>

\* DocumentAnalyzerGUI.final_result_screen, run by the Tk main loop: one tab
\* for every entry of the mapping
final_result_screen ==
    /\ app = "gui"
    /\ after_queue # <<>>
    /\ Head(after_queue).callback = "final_result_screen"
    /\ delivered' = Append(delivered, [kind |-> "reports", reports |-> Head(after_queue).arg])
    /\ after_queue' = Tail(after_queue)
    /\ screen' = [view |-> "results", analyze_button |-> "none"]
    /\ ThreadOver
    /\ UNCHANGED <<call, ret, app, nltk_setup, file_path, trace>>

\* the "Analyze Another Document" button: initial_screen
initial_screen ==
    /\ app = "gui"
    /\ screen.view = "results"
    /\ screen' = [view |-> "initial", analyze_button |-> "disabled"]
    /\ delivered' = <<>>
    /\ UNCHANGED <<harnessVars, app, pc, nltk_setup, file_path, document_text,
                   chapter_texts, chapter_reports, chapter_i, after_queue, trace>>

Next ==
    \/ CliSetup
    \/ CliPrompt
    \/ CliAnalyze
    \/ GuiSetup
    \/ browse_file
    \/ start_analysis
    \/ run_analysis
    \/ analyze_by_chapter_split
    \/ analyze_by_chapter_full
    \/ analyze_by_chapter_chapter
    \/ analyze_by_chapter_return
    \/ show_error_result
    \/ final_result_screen
    \/ initial_screen

Spec == Init /\ [][Next]_vars

----------------------------------------------------------------------------
(* Claims about the programs, checked under Spec *)

\* the mapping run_analysis has posted for the results screen
Posted == Head(after_queue).arg

ResultsPosted ==
    /\ after_queue # <<>>
    /\ Head(after_queue).callback = "final_result_screen"

\* C7 as stated: an analysis run ends with the complete result set or with
\* a single error value; whatever a step raises is caught at the
\* orchestrator boundary, and no partly built mapping is delivered.
C7_CompleteOrError ==
    /\ Len(delivered) <= 1
    /\ \A d \in 1..Len(delivered) : delivered[d].kind \in {"report", "reports", "error"}
    /\ ResultsPosted => Len(Posted) = 1 + Len(chapter_texts)
    /\ pc # "crashed"

\* C7, the part the Tk front-end keeps: run_analysis delivers one error
\* message or the complete mapping, never anything else
C7_GuiCompleteOrError ==
    app = "gui" =>
        /\ Len(delivered) <= 1
        /\ \A d \in 1..Len(delivered) : delivered[d].kind \in {"reports", "error"}
        /\ Len(after_queue) <= 1
        /\ ResultsPosted => Len(Posted) = 1 + Len(chapter_texts)

\* the segments of the text under analysis and the report expected for the
\* k-th analysis of the run (the whole text first, then the segments)
Segments == split_text_into_chapters(document_text[1], 3)

ExpectedReport(text, k) ==
    LET result == analyze_text(text, world.tag_answers[k])
    IN  generate_markdown_report(result[1], result[2], file_path)

\* C8: the mapping analyze_by_chapter returns holds "Full Document Summary"
\* first, then one entry for every segment, labelled "Chapter 1",
\* "Chapter 2", ... in segment order, the report under "Chapter i" being
\* that of the i-th segment's text alone; it has 1 + (number of segments)
\* entries.
C8_ReportMapping ==
    ResultsPosted =>
        /\ Len(Posted) = 1 + Len(Segments)
        /\ Posted[1] = <<FullDocumentSummary, ExpectedReport(document_text[1], 1)>>
        /\ \A k \in 1..Len(Segments) :
              /\ Posted[k + 1][1] = <<"Chapter", k>>
              /\ Posted[k + 1][2] =
                     [ExpectedReport(Segments[k], k + 1)
                         EXCEPT !.heading = <<"Analysis Report", <<"Chapter", k>> >>]

\* C8 witness: a mapping of four entries was returned, the third chapter
\* counting two words where the whole text counts three
C8_Witness ==
    /\ ResultsPosted
    /\ Len(Posted) = 4
    /\ Posted[1][2].word_count = 3
    /\ Posted[4][1] = <<"Chapter", 3>>
    /\ Posted[4][2].word_count = 2

ProcessingEvents ==
    {"input", "askopenfilename", "get_document_text", "split_text_into_chapters",
     "analyze_text"}

Extracted == document_text # <<>>

\* get_document_text took one of its failure branches: the file does not
\* exist, its extension is neither .pdf nor .docx, or the parser raised
TookFailureBranch ==
    \/ ~world.file.exists
    \/ OtherExtension(file_path)
    \/ ~world.file.parses

\* the caller treated the extraction as failed: main_app printed the
\* message and prompts again; run_analysis posted the returned text to
\* show_error_result and returned
TreatedAsFailed ==
    \/ app = "cli" /\ pc = "prompt"
    \/ /\ app = "gui"
       /\ pc = "posted"
       /\ Head(after_queue) =
              [callback |-> "show_error_result", arg |-> document_text[1]]

\* C11: the callers of get_document_text treat an extraction as failed if
\* and only if get_document_text took one of its failure branches; a
\* document that was extracted is passed on to analysis whatever its text,
\* also when it begins with "Error" or "Unsupported".
C11_FailedIffFailureBranch ==
    Extracted => (TreatedAsFailed <=> TookFailureBranch)

\* C11, the half the callers keep: every failure branch is treated as a
\* failed extraction, none is passed on to analysis
C11_FailureBranchReported ==
    (Extracted /\ TookFailureBranch) => TreatedAsFailed

====
